---- MODULE Spec2Model ----
(***************************************************************************)
(* Model of the DataSync ingestion pipeline (packages/ingestion/src):      *)
(*   db.ts        - ingestion_state checkpoint and the bulk loader         *)
(*   api.ts       - throttledRequest / fetchEvents                         *)
(*   the entry module - runIngestion: the fetcher and writer loops         *)
(*                                                                         *)
(* Text is modelled as a sequence of one-character tokens, so that the     *)
(* COPY escaping and PostgreSQL's decoding of it are computed, not assumed.*)
(***************************************************************************)
EXTENDS Integers, Sequences, FiniteSets, TLC

VARIABLES
    pages,        \* the remote stream: the page each cursor returns
    events,       \* table events, rows in insertion order
    dbCursor,     \* ingestion_state.next_cursor
    dbTotal,      \* ingestion_state.total_processed
    fetchQueue,   \* runIngestion: fetchQueue
    writeQueue,   \* runIngestion: writeQueue
    allFetched,   \* runIngestion: allFetched
    lastCursor,   \* runIngestion: lastCursor
    statsTotal,   \* Stats.total
    fpc,          \* fetcher: position ("loop", "fetching", "done")
    fcur,         \* fetcher: the cursor of the fetch in flight
    wpc,          \* writer: position ("loop", "inserting", "saving", "done")
    wbatch,       \* writer: the batch shifted from writeQueue
    saveArg,      \* the cursor argument of the saveProgress call in flight
    mpc,          \* runIngestion: position of the main routine
    faults,       \* failures injected so far (environment)
    hist,         \* observations of the run, read by the properties only
    loader,       \* state of the write-side harnesses (bulk loader, cadence)
    clock         \* state of the fetch-side harnesses (throttle, one call, parsing)

vars == <<pages, events, dbCursor, dbTotal, fetchQueue, writeQueue, allFetched,
          lastCursor, statsTotal, fpc, fcur, wpc, wbatch, saveArg, mpc, faults,
          hist, loader, clock>>

pipelineVars == <<pages, events, dbCursor, dbTotal, fetchQueue, writeQueue,
                  allFetched, lastCursor, statsTotal, fpc, fcur, wpc, wbatch,
                  saveArg, mpc, faults, hist>>

(***************************************************************************)
(* Characters.  BS, TAB, LF, CR are the four bytes escapeForCopy rewrites; *)
(* Q is the double quote of JSON text.                                     *)
(***************************************************************************)
BS == "BS"
TAB == "TAB"
LF == "LF"
CR == "CR"
Q == "Q"

\* An absent (undefined / null) property of an event object.
Absent == <<"undefined">>
\* SQL NULL, as a column value.
SqlNull == <<"NULL">>
\* new Date(0).toISOString()
EpochZero == <<"1970-01-01T00:00:00.000Z">>

\* TLC evaluates an operator's argument each time the body uses it.  Strict
\* and Strict2 evaluate the arguments once and hand the values to F.
Strict(F(_), x) == CHOOSE r \in {F(v) : v \in {x}} : TRUE
Strict2(F(_, _), x, y) == CHOOSE r \in {F(v, w) : v \in {x}, w \in {y}} : TRUE

RECURSIVE ReplaceFrom(_, _, _, _)
ReplaceFrom(s, i, c, rep) ==
    IF i > Len(s) THEN <<>>
    ELSE (IF s[i] = c THEN rep ELSE <<s[i]>>) \o ReplaceFrom(s, i + 1, c, rep)

\* String.prototype.replace with a global one-character pattern.
ReplaceAll(str, c, rep) ==
    LET Run(s) == ReplaceFrom(s, 1, c, rep) IN Strict(Run, str)

\* escapeForCopy with the backslash rule applied last: a plausible slip.
escapeForCopy_BackslashLast(val) ==
    ReplaceAll(ReplaceAll(ReplaceAll(ReplaceAll(val,
        LF, <<BS, "n">>), CR, <<BS, "r">>), TAB, <<BS, "t">>), BS, <<BS, BS>>)

\* db.ts escapeForCopy: backslash, then newline, carriage return, tab.
escapeForCopy(val) ==
    ReplaceAll(ReplaceAll(ReplaceAll(ReplaceAll(val,
        BS, <<BS, BS>>), LF, <<BS, "n">>), CR, <<BS, "r">>), TAB, <<BS, "t">>)

\* String(x ?? "")
StringOrEmpty(x) == IF x = Absent THEN <<>> ELSE x

\* The dates new Date(ts) can parse.
ValidDates == {<<"2024-01-01T00:00:00.000Z">>}

\* db.ts normalizeTimestamp
normalizeTimestamp(ts) ==
    IF ts = Absent \/ ts = <<>> THEN EpochZero
    ELSE IF ts \notin ValidDates THEN EpochZero
    ELSE ts

RECURSIVE JsonEscapeFrom(_, _)
JsonEscapeFrom(s, i) ==
    IF i > Len(s) THEN <<>>
    ELSE LET c == s[i] IN
         (CASE c = BS  -> <<BS, BS>>
            [] c = Q   -> <<BS, Q>>
            [] c = LF  -> <<BS, "n">>
            [] c = CR  -> <<BS, "r">>
            [] c = TAB -> <<BS, "t">>
            [] OTHER   -> <<c>>) \o JsonEscapeFrom(s, i + 1)

\* The body of a JSON string literal, as JSON.stringify writes it.
JsonEscape(str) == LET Run(s) == JsonEscapeFrom(s, 1) IN Strict(Run, str)

JsonMember(key, v) == IF v = Absent THEN <<>> ELSE <<key, Q>> \o JsonEscape(v) \o <<Q>>

\* JSON.stringify(e): the members that are present, in property order.
JsonStringify(e) ==
    <<"{">> \o JsonMember("id:", e.id) \o JsonMember("event_name:", e.event_name)
            \o JsonMember("user_id:", e.user_id) \o JsonMember("timestamp:", e.timestamp)
            \o <<"}">>

\* The five column values both insert paths derive from an event.
RowValues(e) ==
    [id         |-> StringOrEmpty(e.id),
     event_name |-> StringOrEmpty(e.event_name),
     user_id    |-> StringOrEmpty(e.user_id),
     timestamp  |-> normalizeTimestamp(e.timestamp),
     raw        |-> JsonStringify(e)]

\* bulkInsertEvents: one line of the COPY payload.
CopyLine(e) ==
    LET Line(v) ==
            escapeForCopy(v.id) \o <<TAB>> \o escapeForCopy(v.event_name) \o <<TAB>>
                \o escapeForCopy(v.user_id) \o <<TAB>> \o v.timestamp \o <<TAB>>
                \o escapeForCopy(v.raw)
    IN Strict(Line, RowValues(e))

RECURSIVE CopyDataFrom(_, _)
CopyDataFrom(evs, i) ==
    IF i > Len(evs) THEN <<>>
    ELSE CopyLine(evs[i]) \o <<LF>> \o CopyDataFrom(evs, i + 1)

\* bulkInsertEvents: rows.join("\n") + "\n"
CopyData(evs) == CopyDataFrom(evs, 1)

(***************************************************************************)
(* PostgreSQL: COPY ... FROM STDIN WITH (FORMAT text).                     *)
(***************************************************************************)
\* The pieces of s between occurrences of sep (one more than the separators).
SplitOn(str, sep) ==
    LET Cut(s, at) ==
            LET nth(k) == CHOOSE i \in at : Cardinality({j \in at : j <= i}) = k
                n      == Cardinality(at)
            IN [k \in 1..(n + 1) |->
                   SubSeq(s, IF k = 1 THEN 1 ELSE nth(k - 1) + 1,
                             IF k = n + 1 THEN Len(s) ELSE nth(k) - 1)]
        Split(s) == Strict2(Cut, s, {i \in 1..Len(s) : s[i] = sep})
    IN Strict(Split, str)

RECURSIVE CopyUnescapeFrom(_, _)
CopyUnescapeFrom(f, i) ==
    IF i > Len(f) THEN <<>>
    ELSE IF f[i] = BS /\ i < Len(f)
         THEN LET c == f[i + 1] IN
              (CASE c = "n" -> <<LF>>
                 [] c = "r" -> <<CR>>
                 [] c = "t" -> <<TAB>>
                 [] OTHER   -> <<c>>) \o CopyUnescapeFrom(f, i + 2)
         ELSE <<f[i]>> \o CopyUnescapeFrom(f, i + 1)

\* Backslash sequences of the text format; an unlisted character stands for itself.
CopyUnescape(field) == LET Run(f) == CopyUnescapeFrom(f, 1) IN Strict(Run, field)

CopyField(f) == IF f = <<BS, "N">> THEN SqlNull ELSE CopyUnescape(f)

\* The lines of the payload: each is terminated by a newline.
CopyLines(data) ==
    LET Lines(parts) == SubSeq(parts, 1, Len(parts) - 1)
    IN Strict(Lines, SplitOn(data, LF))

\* A line is accepted when it has the five columns of events_staging and a
\* timestamp the server can read.
CopyLineOk(line) ==
    LET Ok(fs) == Len(fs) = 5 /\ fs[4] \in ValidDates \cup {EpochZero}
    IN Strict(Ok, SplitOn(line, TAB))

CopyRow(line) ==
    LET Row(fs) ==
            [id         |-> CopyField(fs[1]),
             event_name |-> CopyField(fs[2]),
             user_id    |-> CopyField(fs[3]),
             timestamp  |-> fs[4],
             raw        |-> CopyField(fs[5])]
    IN Strict(Row, SplitOn(line, TAB))

\* The rows COPY loads into events_staging, or failure.
CopyFrom(data) ==
    LET Load(ls) ==
            IF \A i \in 1..Len(ls) : CopyLineOk(ls[i])
            THEN [ok |-> TRUE,  rows |-> [i \in 1..Len(ls) |-> CopyRow(ls[i])]]
            ELSE [ok |-> FALSE, rows |-> <<>>]
    IN Strict(Load, CopyLines(data))

HasId(table, id) == \E i \in 1..Len(table) : table[i].id = id

\* The merge without its conflict clause.
InsertAlways(table, rows) == table \o rows

AddRow(table, row) == IF HasId(table, row.id) THEN table ELSE Append(table, row)

RECURSIVE MergeUpTo(_, _, _)
MergeUpTo(table, rows, k) ==
    IF k = 0 THEN table ELSE Strict2(AddRow, MergeUpTo(table, rows, k - 1), rows[k])

\* INSERT INTO events ... ON CONFLICT (id) DO NOTHING, row by row.
InsertOnConflictDoNothing(table, rows) ==
    LET Run(t, rs) == MergeUpTo(t, rs, Len(rs)) IN Strict2(Run, table, rows)

\* fallbackInsert: CHUNK, scaled from 500 to the batches of the model.
CHUNK == 2

NumChunks(evs) == (Len(evs) + CHUNK - 1) \div CHUNK

ChunkOf(evs, k) ==
    SubSeq(evs, (k - 1) * CHUNK + 1, IF k * CHUNK < Len(evs) THEN k * CHUNK ELSE Len(evs))

RECURSIVE FallbackFrom(_, _, _, _)
\* fallbackInsert's loop from chunk k on; failAt is the chunk whose query fails (0: none).
FallbackFrom(table, evs, k, failAt) ==
    IF k > NumChunks(evs) THEN [ok |-> TRUE, store |-> table, n |-> Len(evs)]
    ELSE IF k = failAt THEN [ok |-> FALSE, store |-> table, n |-> 0]
    ELSE LET chunk == ChunkOf(evs, k)
             vals  == [i \in 1..Len(chunk) |-> RowValues(chunk[i])]
         IN FallbackFrom(InsertOnConflictDoNothing(table, vals), evs, k + 1, failAt)

\* db.ts fallbackInsert
fallbackInsert(table, evs, failAt) ==
    LET Run(t, es) == FallbackFrom(t, es, 1, failAt) IN Strict2(Run, table, evs)

\* The stages of the primary path at which a statement can fail.
PrimaryStages == {"begin", "create", "copy", "merge", "commit"}

\* bulkInsertEvents, try block: BEGIN, CREATE TEMP TABLE, COPY, merge, COMMIT.
\* A failure at any stage is followed by ROLLBACK: the table is unchanged.
\* The merge fails on a staged row whose id is NULL (events.id is the primary key).
PrimaryPath(table, evs, failStage) ==
    LET Decide(t, staged) ==
            IF failStage \in PrimaryStages \/ ~staged.ok
            THEN [ok |-> FALSE, store |-> t]
            ELSE IF \E i \in 1..Len(staged.rows) : staged.rows[i].id = SqlNull
            THEN [ok |-> FALSE, store |-> t]
            ELSE [ok |-> TRUE, store |-> InsertOnConflictDoNothing(t, staged.rows)]
    IN Strict2(Decide, table, CopyFrom(CopyData(evs)))

\* db.ts bulkInsertEvents.  failStage "connect": pool.connect() rejects, which
\* is outside the try block and so is not followed by the fallback.
bulkInsertEvents(table, evs, failStage, failAt) ==
    LET Run(t, es) ==
            IF es = <<>> THEN [ok |-> TRUE, store |-> t, n |-> 0]
            ELSE IF failStage = "connect" THEN [ok |-> FALSE, store |-> t, n |-> 0]
            ELSE LET Settle(p) ==
                         IF p.ok THEN [ok |-> TRUE, store |-> p.store, n |-> Len(es)]
                         ELSE fallbackInsert(p.store, es, failAt)
                 IN Strict(Settle, PrimaryPath(t, es, failStage))
    IN Strict2(Run, table, evs)

(***************************************************************************)
(* The remote stream.  A cursor is the number of the page it returns; the  *)
(* absent cursor (undefined in fetchQueue, null in lastCursor and in       *)
(* ingestion_state) returns the first page.                                *)
(***************************************************************************)
NoCursor == 0

Ev(id, name) == [id |-> id, event_name |-> name, user_id |-> Absent, timestamp |-> Absent]

EvA == Ev(<<"a">>, <<"x">>)
EvB == Ev(<<"b">>, <<"x">>)
EvB2 == Ev(<<"b">>, <<"y">>)
EvC == Ev(<<"c">>, <<"x">>)
EvD == Ev(<<"d">>, <<"x">>)
EvE == Ev(<<"e">>, <<"x">>)

\* What fetchEvents returns for each page of a finite stream: every page but
\* the last carries the next cursor, the last reports hasMore = false.
Stream(datas) ==
    [i \in 1..Len(datas) |->
        [data       |-> datas[i],
         hasMore    |-> i < Len(datas),
         nextCursor |-> IF i < Len(datas) THEN i + 1 ELSE NoCursor]]

Streams ==
    { Stream(<< <<EvA, EvB, EvC>> >>),
      Stream(<< <<EvA, EvB>>, <<EvB2, EvC>> >>),
      Stream(<< <<EvA, EvB>>, <<EvC, EvD>>, <<EvE>> >>),
      Stream(<< <<EvA>>, <<>>, <<EvB>>, <<EvC>> >>) }

\* Failures the environment may inject in one behaviour.
MaxFaults == 2
\* Times the process may be started again.
MaxRestarts == 1
\* writer: the checkpoint cadence, scaled from 5000 to the pages of the model.
CheckpointEvery == 2

\* The writer checkpointing only when the total lands on a multiple.
ShouldCheckpoint_ExactMultiple(total, n, every) == total % every = 0

\* writer: stats.total % 5000 < batch.events.length, after stats.update(n).
ShouldCheckpoint(total, n, every) == total % every < n

PageOf(cursor) == IF cursor = NoCursor THEN 1 ELSE cursor

\* HTTP statuses fetchEvents rethrows: not 429, not 400, not 504.
FatalStatuses == {401, 403, 404}
OtherStatuses == FatalStatuses \cup {500, 502, 503}

\* db.ts saveProgress: the checkpoint row after the UPDATE.
saveProgress(state, cursor, count) ==
    [next_cursor |-> cursor, total_processed |-> state.total_processed + count]

IngestionState == [next_cursor |-> dbCursor, total_processed |-> dbTotal]

HistInit ==
    [run |-> 1, fatal |-> FALSE, stale |-> FALSE, stalePending |-> FALSE,
     afterStale |-> {}, overlap |-> FALSE, flushed |-> FALSE, fetched |-> {},
     failed |-> <<>>, ckpt |-> "none", prev |-> <<>>]

IdleLoader == [phase |-> "off"]
IdleClock == [phase |-> "off"]

\* An empty database and a process in position m, over one of the streams.
PipelineInit(streams, m) ==
    /\ pages \in streams
    /\ events = <<>>
    /\ dbCursor = NoCursor
    /\ dbTotal = 0
    /\ fetchQueue = <<>>
    /\ writeQueue = <<>>
    /\ allFetched = FALSE
    /\ lastCursor = NoCursor
    /\ statsTotal = 0
    /\ fpc = "loop"
    /\ fcur = NoCursor
    /\ wpc = "loop"
    /\ wbatch = [events |-> <<>>, cursor |-> NoCursor]
    /\ saveArg = NoCursor
    /\ mpc = m
    /\ faults = 0
    /\ hist = HistInit

\* A fresh database and a process about to run runIngestion.
Init ==
    /\ PipelineInit(Streams, "start")
    /\ loader = IdleLoader
    /\ clock = IdleClock

\* runIngestion up to the start of the two loops: initDb, getTotalProcessed,
\* getCursor, the queues and flags.
Startup ==
    /\ mpc = "start"
    /\ statsTotal' = dbTotal
    /\ fetchQueue' = <<dbCursor>>
    /\ writeQueue' = <<>>
    /\ allFetched' = FALSE
    /\ lastCursor' = dbCursor
    /\ fpc' = "loop"
    /\ wpc' = "loop"
    /\ mpc' = "run"
    /\ UNCHANGED <<pages, events, dbCursor, dbTotal, fcur, wbatch, saveArg, faults,
                   hist, loader, clock>>

\* A query of the start-up sequence rejects: runIngestion().catch exits 1.
StartupFail ==
    /\ mpc = "start"
    /\ faults < MaxFaults
    /\ faults' = faults + 1
    /\ mpc' = "exit1"
    /\ UNCHANGED <<pages, events, dbCursor, dbTotal, fetchQueue, writeQueue,
                   allFetched, lastCursor, statsTotal, fpc, fcur, wpc, wbatch,
                   saveArg, hist, loader, clock>>

(***************************************************************************)
(* fetcher                                                                 *)
(***************************************************************************)
\* fetchQueue is empty: stop when allFetched, otherwise sleep(10) and look again.
FetcherPoll ==
    /\ mpc = "run" /\ fpc = "loop"
    /\ fetchQueue = <<>>
    /\ fpc' = IF allFetched THEN "done" ELSE "loop"
    /\ UNCHANGED <<pages, events, dbCursor, dbTotal, fetchQueue, writeQueue,
                   allFetched, lastCursor, statsTotal, fcur, wpc, wbatch, saveArg,
                   mpc, faults, hist, loader, clock>>

\* The fetcher reading the head of fetchQueue without removing it.
FetcherTake_NoShift ==
    /\ mpc = "run" /\ fpc = "loop"
    /\ fetchQueue # <<>>
    /\ fcur' = Head(fetchQueue)
    /\ fpc' = "fetching"
    /\ hist' = [hist EXCEPT !.stalePending = FALSE,
                            !.afterStale = IF hist.stalePending
                                           THEN @ \cup {Head(fetchQueue)} ELSE @]
    /\ UNCHANGED <<pages, events, dbCursor, dbTotal, fetchQueue, writeQueue, allFetched,
                   lastCursor, statsTotal, wpc, wbatch, saveArg, mpc, faults,
                   loader, clock>>

\* const cursor = fetchQueue.shift(); fetchEvents(cursor, PAGE_SIZE) is issued.
FetcherTake ==
    /\ mpc = "run" /\ fpc = "loop"
    /\ fetchQueue # <<>>
    /\ fcur' = Head(fetchQueue)
    /\ fetchQueue' = Tail(fetchQueue)
    /\ fpc' = "fetching"
    /\ hist' = [hist EXCEPT !.stalePending = FALSE,
                            !.afterStale = IF hist.stalePending
                                           THEN @ \cup {Head(fetchQueue)} ELSE @]
    /\ UNCHANGED <<pages, events, dbCursor, dbTotal, writeQueue, allFetched,
                   lastCursor, statsTotal, wpc, wbatch, saveArg, mpc, faults,
                   loader, clock>>

\* The fetcher going back to its queue after the last page, the flag unset.
FetchOk_NoCompletion ==
    /\ mpc = "run" /\ fpc = "fetching"
    /\ LET res == pages[PageOf(fcur)] IN
       /\ writeQueue' = IF Len(res.data) > 0
                        THEN Append(writeQueue, [events |-> res.data, cursor |-> res.nextCursor])
                        ELSE writeQueue
       /\ IF res.hasMore /\ res.nextCursor # NoCursor
          THEN /\ lastCursor' = res.nextCursor
               /\ fetchQueue' = Append(fetchQueue, res.nextCursor)
               /\ fpc' = "loop"
               /\ UNCHANGED allFetched
          ELSE /\ fpc' = "loop"
               /\ UNCHANGED <<allFetched, lastCursor, fetchQueue>>
       /\ hist' = [hist EXCEPT !.fetched = IF Len(res.data) > 0
                                            THEN @ \cup {PageOf(fcur)} ELSE @]
    /\ UNCHANGED <<pages, events, dbCursor, dbTotal, statsTotal, fcur, wpc, wbatch,
                   saveArg, mpc, faults, loader, clock>>

\* fetchEvents returned a page.
FetchOk ==
    /\ mpc = "run" /\ fpc = "fetching"
    /\ LET res == pages[PageOf(fcur)] IN
       /\ writeQueue' = IF Len(res.data) > 0
                        THEN Append(writeQueue, [events |-> res.data, cursor |-> res.nextCursor])
                        ELSE writeQueue
       /\ IF res.hasMore /\ res.nextCursor # NoCursor
          THEN /\ lastCursor' = res.nextCursor
               /\ fetchQueue' = Append(fetchQueue, res.nextCursor)
               /\ fpc' = "loop"
               /\ UNCHANGED allFetched
          ELSE /\ allFetched' = TRUE
               /\ fpc' = "done"
               /\ UNCHANGED <<lastCursor, fetchQueue>>
       /\ hist' = [hist EXCEPT !.fetched = IF Len(res.data) > 0
                                            THEN @ \cup {PageOf(fcur)} ELSE @]
    /\ UNCHANGED <<pages, events, dbCursor, dbTotal, statsTotal, fcur, wpc, wbatch,
                   saveArg, mpc, faults, loader, clock>>

\* A 429 or a 504/no-response: fetchEvents waits and asks again, the call
\* does not return.
FetchRetried ==
    /\ mpc = "run" /\ fpc = "fetching"
    /\ faults < MaxFaults
    /\ faults' = faults + 1
    /\ UNCHANGED <<pages, events, dbCursor, dbTotal, fetchQueue, writeQueue,
                   allFetched, lastCursor, statsTotal, fpc, fcur, wpc, wbatch,
                   saveArg, mpc, hist, loader, clock>>

\* The reset re-queueing the cursor that was rejected.
FetchBadCursor_SameCursor ==
    /\ mpc = "run" /\ fpc = "fetching"
    /\ faults < MaxFaults
    /\ faults' = faults + 1
    /\ lastCursor' = NoCursor
    /\ fetchQueue' = Append(fetchQueue, fcur)
    /\ fpc' = "loop"
    /\ hist' = [hist EXCEPT !.stale = TRUE, !.stalePending = TRUE]
    /\ UNCHANGED <<pages, events, dbCursor, dbTotal, writeQueue, allFetched,
                   statsTotal, fcur, wpc, wbatch, saveArg, mpc, loader, clock>>

\* A 400: fetchEvents throws BAD_CURSOR; the fetcher resets to the start.
FetchBadCursor ==
    /\ mpc = "run" /\ fpc = "fetching"
    /\ faults < MaxFaults
    /\ faults' = faults + 1
    /\ lastCursor' = NoCursor
    /\ fetchQueue' = Append(fetchQueue, NoCursor)
    /\ fpc' = "loop"
    /\ hist' = [hist EXCEPT !.stale = TRUE, !.stalePending = TRUE]
    /\ UNCHANGED <<pages, events, dbCursor, dbTotal, writeQueue, allFetched,
                   statsTotal, fcur, wpc, wbatch, saveArg, mpc, loader, clock>>

\* Any other status: fetchEvents rethrows, the fetcher logs, re-queues the
\* cursor unless it is undefined, sleeps and loops.
FetchOtherError ==
    /\ mpc = "run" /\ fpc = "fetching"
    /\ faults < MaxFaults
    /\ faults' = faults + 1
    /\ \E status \in OtherStatuses :
          hist' = [hist EXCEPT !.fatal = @ \/ status \in FatalStatuses]
    /\ fetchQueue' = IF fcur # NoCursor THEN Append(fetchQueue, fcur) ELSE fetchQueue
    /\ fpc' = "loop"
    /\ UNCHANGED <<pages, events, dbCursor, dbTotal, writeQueue, allFetched,
                   lastCursor, statsTotal, fcur, wpc, wbatch, saveArg, mpc, loader,
                   clock>>

(***************************************************************************)
(* writer                                                                  *)
(***************************************************************************)
\* The writer stopping on the flag alone, whatever is left in writeQueue.
WriterPoll_FlagOnly ==
    /\ mpc = "run" /\ wpc = "loop"
    /\ writeQueue = <<>> \/ allFetched
    /\ wpc' = IF allFetched THEN "done" ELSE "loop"
    /\ UNCHANGED <<pages, events, dbCursor, dbTotal, fetchQueue, writeQueue,
                   allFetched, lastCursor, statsTotal, fpc, fcur, wbatch, saveArg,
                   mpc, faults, hist, loader, clock>>

\* writeQueue is empty: stop when allFetched, otherwise sleep(10) and look again.
WriterPoll ==
    /\ mpc = "run" /\ wpc = "loop"
    /\ writeQueue = <<>>
    /\ wpc' = IF allFetched THEN "done" ELSE "loop"
    /\ UNCHANGED <<pages, events, dbCursor, dbTotal, fetchQueue, writeQueue,
                   allFetched, lastCursor, statsTotal, fpc, fcur, wbatch, saveArg,
                   mpc, faults, hist, loader, clock>>

\* const batch = writeQueue.shift()!; bulkInsertEvents(batch.events) is issued.
WriterTake ==
    /\ mpc = "run" /\ wpc = "loop"
    /\ writeQueue # <<>>
    /\ wbatch' = Head(writeQueue)
    /\ writeQueue' = Tail(writeQueue)
    /\ wpc' = "inserting"
    /\ UNCHANGED <<pages, events, dbCursor, dbTotal, fetchQueue, allFetched,
                   lastCursor, statsTotal, fpc, fcur, saveArg, mpc, faults, hist,
                   loader, clock>>

\* Some id of the batch is already a row of the table.
Overlaps(table, evs) == \E i \in 1..Len(evs) : HasId(table, StringOrEmpty(evs[i].id))

\* The writer forgetting a batch whose insert failed.
WriterInsert_DropFailed(failStage, failAt) ==
    /\ mpc = "run" /\ wpc = "inserting"
    /\ failStage # "none" => faults < MaxFaults
    /\ failAt # 0 => failStage \in PrimaryStages
    /\ faults' = IF failStage # "none" THEN faults + 1 ELSE faults
    /\ \E r \in {bulkInsertEvents(events, wbatch.events, failStage, failAt)} :
       LET n == Len(wbatch.events)
       IN /\ events' = r.store
          /\ IF r.ok
             THEN /\ statsTotal' = statsTotal + n
                  /\ hist' = [hist EXCEPT !.failed = <<>>, !.overlap =
                                 @ \/ (hist.stale /\ Overlaps(events, wbatch.events))]
                  /\ IF ShouldCheckpoint(statsTotal + n, n, CheckpointEvery)
                     THEN saveArg' = lastCursor /\ wpc' = "saving"
                     ELSE wpc' = "loop" /\ UNCHANGED saveArg
                  /\ UNCHANGED writeQueue
             ELSE /\ wpc' = "loop"
                  /\ hist' = [hist EXCEPT !.failed = <<wbatch, statsTotal>>]
                  /\ UNCHANGED <<statsTotal, saveArg, writeQueue>>
    /\ UNCHANGED <<pages, dbCursor, dbTotal, fetchQueue, allFetched, lastCursor,
                   fpc, fcur, wbatch, mpc, loader, clock>>

\* The writer putting a failed batch at the back of writeQueue.
WriterInsert_PushBack(failStage, failAt) ==
    /\ mpc = "run" /\ wpc = "inserting"
    /\ failStage # "none" => faults < MaxFaults
    /\ failAt # 0 => failStage \in PrimaryStages
    /\ faults' = IF failStage # "none" THEN faults + 1 ELSE faults
    /\ \E r \in {bulkInsertEvents(events, wbatch.events, failStage, failAt)} :
       LET n == Len(wbatch.events)
       IN /\ events' = r.store
          /\ IF r.ok
             THEN /\ statsTotal' = statsTotal + n
                  /\ hist' = [hist EXCEPT !.failed = <<>>, !.overlap =
                                 @ \/ (hist.stale /\ Overlaps(events, wbatch.events))]
                  /\ IF ShouldCheckpoint(statsTotal + n, n, CheckpointEvery)
                     THEN saveArg' = lastCursor /\ wpc' = "saving"
                     ELSE wpc' = "loop" /\ UNCHANGED saveArg
                  /\ UNCHANGED writeQueue
             ELSE /\ writeQueue' = Append(writeQueue, wbatch)
                  /\ wpc' = "loop"
                  /\ hist' = [hist EXCEPT !.failed = <<wbatch, statsTotal>>]
                  /\ UNCHANGED <<statsTotal, saveArg>>
    /\ UNCHANGED <<pages, dbCursor, dbTotal, fetchQueue, allFetched, lastCursor,
                   fpc, fcur, wbatch, mpc, loader, clock>>

\* bulkInsertEvents settled.  Resolved: stats.update, and saveProgress(lastCursor, 0)
\* is issued when the total crossed a multiple of the cadence.  Rejected: the
\* batch goes back to the front of writeQueue.
WriterInsert(failStage, failAt) ==
    /\ mpc = "run" /\ wpc = "inserting"
    /\ failStage # "none" => faults < MaxFaults
    /\ failAt # 0 => failStage \in PrimaryStages
    /\ faults' = IF failStage # "none" THEN faults + 1 ELSE faults
    /\ \E r \in {bulkInsertEvents(events, wbatch.events, failStage, failAt)} :
       LET n == Len(wbatch.events)
       IN /\ events' = r.store
          /\ IF r.ok
             THEN /\ statsTotal' = statsTotal + n
                  /\ hist' = [hist EXCEPT !.failed = <<>>, !.overlap =
                                 @ \/ (hist.stale /\ Overlaps(events, wbatch.events))]
                  /\ IF ShouldCheckpoint(statsTotal + n, n, CheckpointEvery)
                     THEN saveArg' = lastCursor /\ wpc' = "saving"
                     ELSE wpc' = "loop" /\ UNCHANGED saveArg
                  /\ UNCHANGED writeQueue
             ELSE /\ writeQueue' = <<wbatch>> \o writeQueue
                  /\ wpc' = "loop"
                  /\ hist' = [hist EXCEPT !.failed = <<wbatch, statsTotal>>]
                  /\ UNCHANGED <<statsTotal, saveArg>>
    /\ UNCHANGED <<pages, dbCursor, dbTotal, fetchQueue, allFetched, lastCursor,
                   fpc, fcur, wbatch, mpc, loader, clock>>

\* The periodic saveProgress without its catch: a rejection reaches the
\* writer's catch, which puts the batch back.
WriterSave_Unswallowed(ok) ==
    /\ mpc = "run" /\ wpc = "saving"
    /\ ~ok => faults < MaxFaults
    /\ faults' = IF ok THEN faults ELSE faults + 1
    /\ LET st == IF ok THEN saveProgress(IngestionState, saveArg, 0) ELSE IngestionState
       IN dbCursor' = st.next_cursor /\ dbTotal' = st.total_processed
    /\ wpc' = "loop"
    /\ writeQueue' = IF ok THEN writeQueue ELSE <<wbatch>> \o writeQueue
    /\ hist' = [hist EXCEPT !.ckpt = IF ~ok THEN "failed"
                                     ELSE IF @ = "failed" THEN "caughtUp" ELSE @]
    /\ UNCHANGED <<pages, events, fetchQueue, allFetched, lastCursor,
                   statsTotal, fpc, fcur, wbatch, saveArg, mpc, loader, clock>>

\* The periodic saveProgress(lastCursor, 0) settled; a rejection is swallowed.
WriterSave(ok) ==
    /\ mpc = "run" /\ wpc = "saving"
    /\ ~ok => faults < MaxFaults
    /\ faults' = IF ok THEN faults ELSE faults + 1
    /\ LET st == IF ok THEN saveProgress(IngestionState, saveArg, 0) ELSE IngestionState
       IN dbCursor' = st.next_cursor /\ dbTotal' = st.total_processed
    /\ wpc' = "loop"
    /\ hist' = [hist EXCEPT !.ckpt = IF ~ok THEN "failed"
                                     ELSE IF @ = "failed" THEN "caughtUp" ELSE @]
    /\ UNCHANGED <<pages, events, fetchQueue, writeQueue, allFetched, lastCursor,
                   statsTotal, fpc, fcur, wbatch, saveArg, mpc, loader, clock>>

(***************************************************************************)
(* runIngestion after the loops                                            *)
(***************************************************************************)
\* Promise.all([fetcher(), writer()]) resolved; the final saveProgress is issued.
MainJoin ==
    /\ mpc = "run" /\ fpc = "done" /\ wpc = "done"
    /\ saveArg' = lastCursor
    /\ mpc' = "flush"
    /\ UNCHANGED <<pages, events, dbCursor, dbTotal, fetchQueue, writeQueue,
                   allFetched, lastCursor, statsTotal, fpc, fcur, wpc, wbatch,
                   faults, hist, loader, clock>>

\* The final saveProgress(lastCursor, 0) settled; a rejection is swallowed.
MainFlush(ok) ==
    /\ mpc = "flush"
    /\ ~ok => faults < MaxFaults
    /\ faults' = IF ok THEN faults ELSE faults + 1
    /\ LET st == IF ok THEN saveProgress(IngestionState, saveArg, 0) ELSE IngestionState
       IN dbCursor' = st.next_cursor /\ dbTotal' = st.total_processed
    /\ hist' = [hist EXCEPT !.flushed = TRUE]
    /\ mpc' = "count"
    /\ UNCHANGED <<pages, events, fetchQueue, writeQueue, allFetched, lastCursor,
                   statsTotal, fpc, fcur, wpc, wbatch, saveArg, loader, clock>>

\* SELECT COUNT(*) resolved: the summary is printed and process.exit(0).
MainExit ==
    /\ mpc = "count"
    /\ mpc' = "exit0"
    /\ UNCHANGED <<pages, events, dbCursor, dbTotal, fetchQueue, writeQueue,
                   allFetched, lastCursor, statsTotal, fpc, fcur, wpc, wbatch,
                   saveArg, faults, hist, loader, clock>>

\* SELECT COUNT(*) rejected: runIngestion().catch, process.exit(1).
MainCountFail ==
    /\ mpc = "count"
    /\ faults < MaxFaults
    /\ faults' = faults + 1
    /\ mpc' = "exit1"
    /\ UNCHANGED <<pages, events, dbCursor, dbTotal, fetchQueue, writeQueue,
                   allFetched, lastCursor, statsTotal, fpc, fcur, wpc, wbatch,
                   saveArg, hist, loader, clock>>

\* The process is killed: only the database survives.
Crash ==
    /\ mpc \in {"run", "flush", "count"}
    /\ faults < MaxFaults
    /\ faults' = faults + 1
    /\ mpc' = "crashed"
    /\ UNCHANGED <<pages, events, dbCursor, dbTotal, fetchQueue, writeQueue,
                   allFetched, lastCursor, statsTotal, fpc, fcur, wpc, wbatch,
                   saveArg, hist, loader, clock>>

\* The process is started again on the same database.
Restart ==
    /\ mpc \in {"crashed", "exit0", "exit1"}
    /\ hist.run <= MaxRestarts
    /\ mpc' = "start"
    /\ fetchQueue' = <<>>
    /\ writeQueue' = <<>>
    /\ allFetched' = FALSE
    /\ lastCursor' = NoCursor
    /\ statsTotal' = 0
    /\ fpc' = "loop"
    /\ fcur' = NoCursor
    /\ wpc' = "loop"
    /\ wbatch' = [events |-> <<>>, cursor |-> NoCursor]
    /\ saveArg' = NoCursor
    /\ hist' = [HistInit EXCEPT
                   !.run = hist.run + 1,
                   !.prev = IF mpc = "exit0"
                            THEN <<{events[i].id : i \in 1..Len(events)}, Len(events)>>
                            ELSE <<>>]
    /\ UNCHANGED <<pages, events, dbCursor, dbTotal, faults, loader, clock>>

InsertOutcomes == {"none", "connect"} \cup PrimaryStages

Next ==
    \/ Startup
    \/ StartupFail
    \/ FetcherPoll
    \/ FetcherTake
    \/ FetchOk
    \/ FetchRetried
    \/ FetchBadCursor
    \/ FetchOtherError
    \/ WriterPoll
    \/ WriterTake
    \/ \E failStage \in InsertOutcomes, failAt \in 0..2 : WriterInsert(failStage, failAt)
    \/ \E ok \in BOOLEAN : WriterSave(ok)
    \/ MainJoin
    \/ \E ok \in BOOLEAN : MainFlush(ok)
    \/ MainExit
    \/ MainCountFail
    \/ Crash
    \/ Restart

Spec == Init /\ [][Next]_vars

(***************************************************************************)
(* The same pipeline against a stream that is delivered: every fetch ends  *)
(* in a page after finitely many 429, 504 and 400 answers, the database    *)
(* rejects finitely many statements, and nothing kills the process.  The   *)
(* two loops and the main routine are scheduled fairly.  The fetcher never  *)
(* finds its queue empty here: each page and each reset refills the queue  *)
(* before the loop head is reached again, so its poll step is left out.    *)
(***************************************************************************)
Progress ==
    \/ Startup
    \/ FetcherTake
    \/ FetchOk
    \/ WriterPoll
    \/ WriterTake
    \/ WriterInsert("none", 0)
    \/ WriterSave(TRUE)
    \/ MainJoin
    \/ MainFlush(TRUE)
    \/ MainExit

NextDelivered ==
    \/ Progress
    \/ FetchRetried
    \/ FetchBadCursor
    \/ \E failStage \in InsertOutcomes \ {"none"}, failAt \in 0..2 :
          WriterInsert(failStage, failAt)
    \/ WriterSave(FALSE)
    \/ MainFlush(FALSE)

SpecDelivered == Init /\ [][NextDelivered]_vars /\ WF_vars(Progress)

\* The same, with the process started again after it has exited.
NextRerun ==
    \/ NextDelivered
    \/ Restart

SpecRerun == Init /\ [][NextRerun]_vars /\ WF_vars(Progress)

(***************************************************************************)
(* Properties of the pipeline                                              *)
(***************************************************************************)
StoredIds == {events[i].id : i \in 1..Len(events)}

PageIds(p) == {StringOrEmpty(pages[p].data[j].id) : j \in 1..Len(pages[p].data)}

DeliveredIds == UNION {PageIds(p) : p \in 1..Len(pages)}

NoDuplicateIds ==
    \A i, j \in 1..Len(events) : i # j => events[i].id # events[j].id

FreshRunCompleted == mpc = "exit0" /\ hist.run = 1

\* C1: the cursor persisted in ingestion_state never points past a page whose
\* events are not yet in the events table, so a restart from it skips nothing.
C1_ResumeSafety ==
    \A p \in 1..Len(pages) : p < PageOf(dbCursor) => PageIds(p) \subseteq StoredIds

\* C2: against a delivered finite stream, under fair scheduling, both loops
\* stop, the final checkpoint flush runs and the process exits with code 0.
C2_Terminates ==
    <>(mpc = "exit0" /\ fpc = "done" /\ wpc = "done" /\ hist.flushed)

C2_Witness ==
    /\ mpc = "exit0" /\ hist.flushed
    /\ Len(pages) >= 3
    /\ faults > 0

\* C3: when a fresh run completes cleanly, the events table holds exactly the
\* distinct ids delivered over all pages, one row each.
C3_StoreIsDeliveredSet ==
    FreshRunCompleted =>
        /\ StoredIds = DeliveredIds
        /\ NoDuplicateIds
        /\ Len(events) = Cardinality(DeliveredIds)

C3_Witness ==
    /\ FreshRunCompleted
    /\ Len(pages) = 2
    /\ Len(events) = 3
    /\ events[2].event_name = <<"x">>

\* C4: when a fresh run completes cleanly, ingestion_state.total_processed
\* equals the number of events the write loop processed.
C4_CountIsProcessed ==
    FreshRunCompleted => dbTotal = statsTotal

\* C9: the fetch issued after a stale-cursor signal is the no-cursor request,
\* and re-fetched pages leave no id twice in the events table.
C9_StaleReset ==
    /\ hist.afterStale \subseteq {NoCursor}
    /\ hist.stale => NoDuplicateIds

C9_Witness ==
    /\ hist.afterStale = {NoCursor}
    /\ hist.overlap
    /\ Len(pages) = 3
    /\ Len(events) = 5

\* C10: a fetch that fails with a status other than 429, 400 or 5xx/no-response
\* terminates the pipeline: the process exits with code 1.
C10_FatalExits ==
    hist.fatal => mpc = "exit1"

\* C11: a 5xx or no-response failure never makes the fetch loop drop its
\* cursor or stop fetching: as long as no Fatal status was seen and the stream
\* is not finished, the loop head always finds the cursor to retry.
C11_TransientKeepsCursor ==
    (mpc = "run" /\ fpc = "loop" /\ ~allFetched /\ ~hist.fatal) => fetchQueue # <<>>

\* The fetch requests outstanding: the one fetcher awaits fetchEvents or it does not.
FetchesInFlight == IF fpc = "fetching" THEN 1 ELSE 0

\* C13: at most one fetch is outstanding, fetchQueue never holds more than one
\* cursor, and no cursor waits in the queue while a fetch is in flight.
C13_SingleFlight ==
    /\ FetchesInFlight <= 1
    /\ Len(fetchQueue) <= 1
    /\ Len(fetchQueue) + FetchesInFlight <= 1

C13_Witness ==
    /\ mpc = "run" /\ fpc = "fetching"
    /\ hist.stale
    /\ fcur # NoCursor
    /\ faults = 2
    /\ writeQueue # <<>>

\* C14: the write loop stops only once the fetch loop has signalled completion
\* and writeQueue is empty; so when the final checkpoint flush is issued no
\* batch is left in the queue and every non-empty page fetched in this run is
\* in the events table.
C14_WriterStopsDrained ==
    /\ wpc = "done" => (allFetched /\ writeQueue = <<>>)
    /\ mpc \in {"flush", "count", "exit0"} =>
          /\ writeQueue = <<>>
          /\ \A p \in hist.fetched : PageIds(p) \subseteq StoredIds

C14_Witness ==
    /\ mpc = "flush"
    /\ Len(pages) = 4
    /\ hist.fetched = {1, 3, 4}
    /\ faults = 2

\* C15: a process that has exited with code 1 attempted a final checkpoint
\* write (saveProgress) in that run before exiting.
C15_FatalCheckpoints ==
    mpc = "exit1" => hist.flushed

\* C16: while a batch whose insert failed has not yet been persisted, it is
\* the batch at the front of writeQueue or the one the writer is inserting,
\* so no other batch is persisted ahead of it and it is not dropped; and the
\* stats total still excludes it.
C16_FailedBatchRetriedFirst ==
    (mpc = "run" /\ hist.failed # <<>>) =>
        /\ \/ wpc = "loop" /\ writeQueue # <<>> /\ Head(writeQueue) = hist.failed[1]
           \/ wpc = "inserting" /\ wbatch = hist.failed[1]
        /\ statsTotal = hist.failed[2]

C16_Witness ==
    /\ mpc = "run" /\ wpc = "inserting"
    /\ hist.failed # <<>>
    /\ wbatch = hist.failed[1]
    /\ Len(writeQueue) >= 1
    /\ faults = 2

\* C17: a periodic checkpoint write that fails leaves the writer in its loop
\* and the process running, with the events table, writeQueue and the stats
\* total as they were and the stored cursor untouched; one that succeeds
\* stores the cursor it was issued with.
C17_CheckpointFailureSwallowed ==
    [][(mpc = "run" /\ wpc = "saving" /\ wpc' # "saving") =>
          /\ wpc' = "loop" /\ mpc' = "run"
          /\ events' = events /\ writeQueue' = writeQueue /\ statsTotal' = statsTotal
          /\ dbCursor' = IF hist'.ckpt = "failed" THEN dbCursor ELSE saveArg]_vars

C17_Witness ==
    /\ mpc = "run" /\ wpc = "loop"
    /\ hist.ckpt = "caughtUp"
    /\ dbCursor = 3
    /\ statsTotal = 4

\* A run started after the previous run completed cleanly.
RerunAfterClean == hist.prev # <<>>

\* C20: a run started from the checkpoint of a cleanly completed run, against
\* the same pages, completes cleanly again and at no point changes the events
\* table: the same ids, the same number of rows.
C20_RerunIdempotent ==
    /\ [](RerunAfterClean =>
             (StoredIds = hist.prev[1] /\ Len(events) = hist.prev[2]))
    /\ (RerunAfterClean ~> (RerunAfterClean /\ mpc = "exit0"))

C20_Witness ==
    /\ RerunAfterClean /\ mpc = "exit0"
    /\ hist.stale
    /\ Len(pages) = 3
    /\ hist.fetched = {1, 2, 3}

(***************************************************************************)
(* The bulk loader on its own: bulkInsertEvents applied to a table and a   *)
(* batch drawn from bounded sets, by the primary path or, after a failure  *)
(* of the primary path at some stage, by the fallback.                     *)
(***************************************************************************)
\* The bytes escapeForCopy rewrites and the letters its output uses.
TrickyChars == {BS, TAB, LF, CR, "n", "N"}

\* Every text of at most two of these characters.
Texts == {<<>>} \cup {<<c>> : c \in TrickyChars} \cup {<<c, d>> : c, d \in TrickyChars}

LoaderEvents ==
    {Ev(<<"a">>, t) : t \in Texts}
        \cup {Ev(t, <<"x">>) : t \in Texts \cup {Absent}}
        \cup {[id |-> <<"c">>, event_name |-> Absent, user_id |-> <<TAB>>, timestamp |-> ts] :
                 ts \in {Absent, <<>>, <<"n">>} \cup ValidDates}

LoaderSeconds == {EvA, Ev(<<BS, "N">>, <<LF>>)}

LoaderBatches ==
    {<<e>> : e \in LoaderEvents}
        \cup {<<e, f>> : e \in LoaderEvents, f \in LoaderSeconds}
        \cup {<<EvA, EvB, EvC>>, <<EvB, EvA, EvB2>>}

\* Tables left by earlier inserts.
LoaderTables ==
    {<<>>,
     <<RowValues(Ev(<<"a">>, <<"o">>))>>,
     <<RowValues(Ev(Absent, <<"o">>)), RowValues(Ev(<<"b">>, <<"o">>))>>}

InitLoader ==
    /\ PipelineInit({Stream(<< <<EvA>> >>)}, "off")
    /\ clock = IdleClock
    /\ \E t \in LoaderTables, b \in LoaderBatches :
          loader = [phase |-> "on", store0 |-> t, batch |-> b, cur |-> t,
                    runA |-> <<>>, runB |-> <<>>, failed |-> FALSE]

\* The path a call of bulkInsertEvents took.
PathTaken(table, evs, failStage) ==
    IF PrimaryPath(table, evs, failStage).ok THEN "primary" ELSE "fallback"

\* One more call of bulkInsertEvents(batch) on the current table.
LoaderCall(failStage, failAt) ==
    /\ loader.phase = "on"
    /\ Len(loader.runA) < 2
    /\ failAt # 0 => failStage \in PrimaryStages /\ ~loader.failed
    /\ failStage = "connect" => ~loader.failed
    /\ \E r \in {bulkInsertEvents(loader.cur, loader.batch, failStage, failAt)} :
          loader' = [loader EXCEPT
                        !.cur = r.store,
                        !.failed = @ \/ ~r.ok,
                        !.runA = IF r.ok
                                 THEN Append(@, [path |-> PathTaken(loader.cur, loader.batch, failStage),
                                                 store |-> r.store])
                                 ELSE @]
    /\ UNCHANGED <<pipelineVars, clock>>

\* The same batch persisted once on the initial table, for comparison.
LoaderOther(failStage) ==
    /\ loader.phase = "on"
    /\ loader.runB = <<>>
    /\ \E r \in {bulkInsertEvents(loader.store0, loader.batch, failStage, 0)} :
          loader' = [loader EXCEPT
                        !.runB = <<[path |-> PathTaken(loader.store0, loader.batch, failStage),
                                    store |-> r.store]>>]
    /\ UNCHANGED <<pipelineVars, clock>>

\* The outcomes of a call that differ in what they leave: no failure, a statement
\* of the primary path failing (then the fallback, whole or failing at a chunk),
\* no connection.
LoaderOutcomes ==
    {<<"none", 0>>, <<"connect", 0>>, <<"copy", 0>>, <<"commit", 0>>,
     <<"commit", 1>>, <<"commit", 2>>}

NextLoader ==
    \/ \E o \in LoaderOutcomes : LoaderCall(o[1], o[2])
    \/ \E failStage \in {"none", "copy", "commit"} : LoaderOther(failStage)

SpecLoader == InitLoader /\ [][NextLoader]_vars

IdsOf(table) == {table[i].id : i \in 1..Len(table)}

BatchIds(evs) == {StringOrEmpty(evs[i].id) : i \in 1..Len(evs)}

\* C5: persisting a batch twice leaves the events table as persisting it once
\* does (same rows, same row count), whichever path each call takes.
C5_InsertIdempotent ==
    (loader.phase = "on" /\ Len(loader.runA) = 2) =>
        /\ loader.runA[2].store = loader.runA[1].store
        /\ Len(loader.runA[2].store) = Len(loader.runA[1].store)

C5_Witness ==
    /\ loader.phase = "on" /\ Len(loader.runA) = 2
    /\ loader.runA[1].path = "fallback" /\ loader.runA[2].path = "primary"
    /\ Len(loader.batch) = 3
    /\ Len(loader.runA[1].store) = Len(loader.store0) + 2
    /\ Len(loader.store0) = 2

\* C6: a successful run of the primary path and one of the fallback path (also
\* after a rolled-back primary attempt) yield the same events table: the rows
\* already there untouched, and one row for each new id.
C6_PathsEquivalent ==
    (loader.phase = "on" /\ Len(loader.runB) = 1) =>
        LET b == loader.runB[1].store IN
        /\ SubSeq(b, 1, Len(loader.store0)) = loader.store0
        /\ IdsOf(b) = IdsOf(loader.store0) \cup BatchIds(loader.batch)
        /\ Len(b) = Cardinality(IdsOf(b))
        /\ (Len(loader.runA) >= 1 /\ ~loader.failed) => loader.runA[1].store = b

C6_Witness ==
    /\ loader.phase = "on" /\ Len(loader.runB) = 1 /\ Len(loader.runA) = 1
    /\ ~loader.failed
    /\ loader.runA[1].path = "primary" /\ loader.runB[1].path = "fallback"
    /\ loader.batch[1].event_name = <<BS, "n">>
    /\ Len(loader.batch) = 2
    /\ Len(loader.runB[1].store) = Len(loader.store0) + 1
    /\ Len(loader.store0) = 1

(***************************************************************************)
(* fetchEvents and throttledRequest against a clock.  Times are in ms.     *)
(* The fetcher is the only caller, so calls do not overlap.                *)
(***************************************************************************)
\* Requests issued in one behaviour.
MaxRequests == 3

\* Time that passes while a request is in flight, or between a timer's due
\* time and the resumption of the code waiting on it.
Delays == {0, 200, 600}

\* MIN_DELAY_MS, as configured (default 500).
MinDelays == {0, 500}

\* The retry-after header of a 429: absent, or a number of seconds.
RetryAfterHeaders == {<<>>, <<0>>, <<1>>, <<2>>}

\* fetchEvents: Number(headers["retry-after"] ?? 10), taken as milliseconds.
RetryAfterMs_Unscaled(header) == IF header = <<>> THEN 10 ELSE header[1]

\* fetchEvents: Number(headers["retry-after"] ?? 10) * 1000
RetryAfterMs(header) == (IF header = <<>> THEN 10 ELSE header[1]) * 1000

\* throttledRequest sleeping for the time already elapsed, not the remainder.
ThrottleSleep_Elapsed(now, last, minDelay) ==
    LET gap == now - last IN
    IF gap < minDelay THEN <<IF gap > 0 THEN gap ELSE 0>> ELSE <<>>

\* throttledRequest: the sleep before the request, <<>> when there is none.
ThrottleSleep(now, last, minDelay) ==
    LET gap == now - last IN
    IF gap < minDelay THEN <<minDelay - gap>> ELSE <<>>

\* 2 ** n
RECURSIVE Pow2(_)
Pow2(n) == IF n = 0 THEN 1 ELSE 2 * Pow2(n - 1)

\* The backoff without its cap.
BackoffMs_Uncapped(retries) == 1000 * Pow2(retries)

\* fetchEvents: Math.min(1000 * 2 ** retries, 16000)
BackoffMs(retries) == IF 1000 * Pow2(retries) < 16000 THEN 1000 * Pow2(retries) ELSE 16000

InitClock ==
    /\ PipelineInit({Stream(<< <<EvA>> >>)}, "off")
    /\ loader = IdleLoader
    /\ \E m \in MinDelays :
          clock = [phase |-> "on", pc |-> "call", now |-> 1000, lastRequestTime |-> 0,
                   minDelay |-> m, retries |-> 0, n |-> 0, prevStart |-> 0,
                   lastStart |-> 0, answered |-> "none", t429 |-> 0, wait429 |-> 0]

\* throttledRequest up to api.get: the sleep if any, then lastRequestTime = Date.now().
ClockRequest ==
    /\ clock.phase = "on" /\ clock.pc = "call"
    /\ clock.n < MaxRequests
    /\ \E d \in Delays :
          LET sleep == ThrottleSleep(clock.now, clock.lastRequestTime, clock.minDelay)
              start == IF sleep = <<>> THEN clock.now ELSE clock.now + sleep[1] + d
          IN /\ sleep = <<>> => d = 0
             /\ clock' = [clock EXCEPT !.pc = "inflight", !.now = start,
                                       !.lastRequestTime = start, !.n = @ + 1,
                                       !.prevStart = clock.lastStart,
                                       !.lastStart = start]
    /\ UNCHANGED <<pipelineVars, loader>>

\* A page: fetchEvents returns, and the fetcher calls it again for the next cursor.
ClockPage ==
    /\ clock.phase = "on" /\ clock.pc = "inflight"
    /\ \E d \in Delays :
          clock' = [clock EXCEPT !.pc = "call", !.now = @ + d, !.retries = 0,
                                 !.answered = "page"]
    /\ UNCHANGED <<pipelineVars, loader>>

\* A 429: sleep(retryAfter * 1000), lastRequestTime = Date.now() + retryAfter * 1000, continue.
ClockRateLimited ==
    /\ clock.phase = "on" /\ clock.pc = "inflight"
    /\ \E d \in Delays, late \in Delays, h \in RetryAfterHeaders :
          LET received == clock.now + d
              resumed  == received + RetryAfterMs(h) + late
          IN clock' = [clock EXCEPT !.pc = "call", !.now = resumed,
                                    !.lastRequestTime = resumed + RetryAfterMs(h),
                                    !.answered = "429", !.t429 = received,
                                    !.wait429 = (IF h = <<>> THEN 10 ELSE h[1]) * 1000]
    /\ UNCHANGED <<pipelineVars, loader>>

\* A 504 or no response: sleep(min(1000 * 2 ** retries, 16000)), retries++, continue.
ClockTransient ==
    /\ clock.phase = "on" /\ clock.pc = "inflight"
    /\ \E d \in Delays :
          clock' = [clock EXCEPT !.pc = "call",
                                 !.now = @ + d + BackoffMs(clock.retries),
                                 !.retries = @ + 1, !.answered = "504"]
    /\ UNCHANGED <<pipelineVars, loader>>

\* A 400 or another status: fetchEvents throws; the fetcher sleeps 5000 or 3000
\* and calls fetchEvents again.
ClockThrown ==
    /\ clock.phase = "on" /\ clock.pc = "inflight"
    /\ \E d \in Delays, pause \in {5000, 3000} :
          clock' = [clock EXCEPT !.pc = "call", !.now = @ + d + pause, !.retries = 0,
                                 !.answered = "thrown"]
    /\ UNCHANGED <<pipelineVars, loader>>

NextClock ==
    \/ ClockRequest
    \/ ClockPage
    \/ ClockRateLimited
    \/ ClockTransient
    \/ ClockThrown

SpecClock == InitClock /\ [][NextClock]_vars

RequestJustStarted == clock.phase = "on" /\ clock.pc = "inflight"

\* C7: two consecutive requests start at least MIN_DELAY_MS apart, first
\* attempts and retries alike.
C7_MinimumSpacing ==
    (RequestJustStarted /\ clock.n >= 2) =>
        clock.lastStart - clock.prevStart >= clock.minDelay

C7_Witness ==
    /\ RequestJustStarted /\ clock.n >= 3
    /\ clock.minDelay = 500
    /\ clock.answered = "page"
    /\ clock.lastStart - clock.prevStart = clock.minDelay

\* C8: the request after a 429 with retry-after R starts no earlier than the
\* time the 429 was received plus R, whatever the minimum delay.
C8_RetryAfterHonoured ==
    (RequestJustStarted /\ clock.answered = "429") =>
        clock.lastStart >= clock.t429 + clock.wait429

C8_Witness ==
    /\ RequestJustStarted /\ clock.answered = "429"
    /\ clock.minDelay = 0
    /\ clock.wait429 = 10000
    /\ clock.n >= 2

(***************************************************************************)
(* One call of fetchEvents(cursor), attempt by attempt: the cursor each    *)
(* request carries and the sleep after each failed attempt.                *)
(***************************************************************************)
\* Requests one call may issue.
MaxAttempts == 7

\* The cursors the fetcher passes: undefined, or a cursor string.
CallCursors == {NoCursor, 1, 2}

InitCall ==
    /\ PipelineInit({Stream(<< <<EvA>> >>)}, "off")
    /\ loader = IdleLoader
    /\ \E c \in CallCursors :
          clock = [phase |-> "call", pc |-> "request", cursor |-> c, retries |-> 0,
                   sent |-> <<>>, answers |-> <<>>, backoffs |-> <<>>]

\* throttledRequest(cursor, limit): params.cursor is set when cursor is truthy.
CallRequest ==
    /\ clock.phase = "call" /\ clock.pc = "request"
    /\ Len(clock.sent) < MaxAttempts
    /\ clock' = [clock EXCEPT !.pc = "inflight",
                              !.sent = Append(@, IF clock.cursor # NoCursor
                                                 THEN clock.cursor ELSE NoCursor)]
    /\ UNCHANGED <<pipelineVars, loader>>

\* status 504, or no response: sleep(wait); retries++; continue
CallTransient ==
    /\ clock.phase = "call" /\ clock.pc = "inflight"
    /\ \E kind \in {"504", "none"} :
          clock' = [clock EXCEPT !.pc = "request",
                                 !.answers = Append(@, kind),
                                 !.backoffs = Append(@, BackoffMs(clock.retries)),
                                 !.retries = @ + 1]
    /\ UNCHANGED <<pipelineVars, loader>>

\* status 429: sleep(retryAfter * 1000); continue.  retries is left alone.
CallRateLimited ==
    /\ clock.phase = "call" /\ clock.pc = "inflight"
    /\ clock' = [clock EXCEPT !.pc = "request", !.answers = Append(@, "429")]
    /\ UNCHANGED <<pipelineVars, loader>>

\* A 2xx: return { data, hasMore, nextCursor }.
CallReturn ==
    /\ clock.phase = "call" /\ clock.pc = "inflight"
    /\ clock' = [clock EXCEPT !.pc = "returned", !.answers = Append(@, "page")]
    /\ UNCHANGED <<pipelineVars, loader>>

\* status 400 (BAD_CURSOR) or any other status: the call throws.
CallThrow ==
    /\ clock.phase = "call" /\ clock.pc = "inflight"
    /\ \E status \in {400} \cup OtherStatuses :
          clock' = [clock EXCEPT !.pc = "thrown", !.answers = Append(@, "thrown")]
    /\ UNCHANGED <<pipelineVars, loader>>

NextCall ==
    \/ CallRequest
    \/ CallTransient
    \/ CallRateLimited
    \/ CallReturn
    \/ CallThrow

SpecCall == InitCall /\ [][NextCall]_vars

\* C12: within one call the k-th 504/no-response failure is followed by a
\* delay of min(1000 * 2^(k-1), 16000) ms (1 s, 2 s, 4 s, 8 s, 16 s, 16 s, ...),
\* and every request of the call carries the cursor the call was given.
C12_BackoffSchedule ==
    clock.phase = "call" =>
        /\ \A k \in 1..Len(clock.backoffs) :
              clock.backoffs[k] = IF k >= 5 THEN 16000 ELSE 1000 * 2^(k - 1)
        /\ \A i \in 1..Len(clock.sent) : clock.sent[i] = clock.cursor

C12_Witness ==
    /\ clock.phase = "call" /\ clock.pc = "returned"
    /\ clock.cursor = 2
    /\ Len(clock.backoffs) = 6
    /\ Len(clock.sent) = 7

(***************************************************************************)
(* The writer's checkpoint decision on its own: batches of every length    *)
(* persisted from every starting total.                                    *)
(***************************************************************************)
\* The largest total a run starts from (getTotalProcessed).
MaxStartTotal == 6
\* The largest batch.
MaxBatchLen == 6
\* Batches persisted in one behaviour.
MaxBatches == 3

\* The cadence: the pipeline's, and a longer one.
Cadences == {CheckpointEvery, CheckpointEvery + 3}

InitCadence ==
    /\ PipelineInit({Stream(<< <<EvA>> >>)}, "off")
    /\ clock = IdleClock
    /\ \E every \in Cadences, t \in 0..MaxStartTotal :
          loader = [phase |-> "cadence", every |-> every, total |-> t, n |-> 0,
                    issued |-> FALSE, batches |-> 0, since |-> 0]

\* bulkInsertEvents resolved for a batch of n events: stats.update(n), then
\* the checkpoint decision.
CadenceBatch ==
    /\ loader.phase = "cadence"
    /\ loader.batches < MaxBatches
    /\ \E n \in 1..MaxBatchLen :
          LET t == loader.total + n
              c == ShouldCheckpoint(t, n, loader.every)
          IN loader' = [loader EXCEPT !.total = t, !.n = n, !.issued = c,
                                      !.batches = @ + 1,
                                      !.since = IF c THEN 0 ELSE @ + n]
    /\ UNCHANGED <<pipelineVars, clock>>

NextCadence == CadenceBatch

SpecCadence == InitCadence /\ [][NextCadence]_vars

\* C18: after a batch of n >= 1 events raised the total from T-n to T, a
\* checkpoint is issued iff some multiple of the cadence lies in (T-n, T]; so
\* fewer events than the cadence are processed without a checkpoint.
C18_CheckpointCadence ==
    (loader.phase = "cadence" /\ loader.batches > 0) =>
        /\ loader.issued <=>
              \E m \in (loader.total - loader.n + 1)..loader.total : m % loader.every = 0
        /\ loader.since < loader.every

C18_Witness ==
    /\ loader.phase = "cadence" /\ loader.batches = 3
    /\ loader.every = 5
    /\ loader.issued
    /\ loader.total % loader.every # 0
    /\ loader.n < loader.every

(***************************************************************************)
(* fetchEvents reading a response body, and the fetcher acting on what it  *)
(* returns.  An optional member is <<>> when absent (undefined or null)    *)
(* and <<v>> when present.                                                 *)
(***************************************************************************)
OptBool == {<<>>, <<TRUE>>, <<FALSE>>}
OptCursor == {<<>>, <<2>>}

\* Response bodies in the shapes the API was seen to use.  pg_ members are
\* those of body.pagination; an absent pagination object has them all absent.
Bodies ==
    [data : {<<>>, << <<>> >>, << <<EvA, EvB>> >>}, events : {<<>>, << <<EvC>> >>},
     hasMore : OptBool, has_more : OptBool,
     pg_hasMore : OptBool, pg_has_more : OptBool,
     nextCursor : OptCursor, next_cursor : {<<>>},
     pg_nextCursor : {<<>>}, pg_next_cursor : OptCursor]

\* fetchEvents with || in place of ?? in the hasMore chain.
ParsePage_FalsyFallsThrough(body) ==
    LET data == IF body.data # <<>> THEN body.data[1]
                ELSE IF body.events # <<>> THEN body.events[1]
                ELSE <<>>
        nextCursor ==
            IF body.nextCursor # <<>> THEN body.nextCursor[1]
            ELSE IF body.next_cursor # <<>> THEN body.next_cursor[1]
            ELSE IF body.pg_nextCursor # <<>> THEN body.pg_nextCursor[1]
            ELSE IF body.pg_next_cursor # <<>> THEN body.pg_next_cursor[1]
            ELSE NoCursor
        hasMore ==
            IF body.hasMore = <<TRUE>> THEN TRUE
            ELSE IF body.has_more = <<TRUE>> THEN TRUE
            ELSE IF body.pg_hasMore = <<TRUE>> THEN TRUE
            ELSE IF body.pg_has_more = <<TRUE>> THEN TRUE
            ELSE nextCursor # NoCursor
    IN [data |-> data, hasMore |-> hasMore, nextCursor |-> nextCursor]

\* fetchEvents: data, nextCursor and hasMore by the ?? chains.
ParsePage(body) ==
    LET data == IF body.data # <<>> THEN body.data[1]
                ELSE IF body.events # <<>> THEN body.events[1]
                ELSE <<>>
        nextCursor ==
            IF body.nextCursor # <<>> THEN body.nextCursor[1]
            ELSE IF body.next_cursor # <<>> THEN body.next_cursor[1]
            ELSE IF body.pg_nextCursor # <<>> THEN body.pg_nextCursor[1]
            ELSE IF body.pg_next_cursor # <<>> THEN body.pg_next_cursor[1]
            ELSE NoCursor
        hasMore ==
            IF body.hasMore # <<>> THEN body.hasMore[1]
            ELSE IF body.has_more # <<>> THEN body.has_more[1]
            ELSE IF body.pg_hasMore # <<>> THEN body.pg_hasMore[1]
            ELSE IF body.pg_has_more # <<>> THEN body.pg_has_more[1]
            ELSE nextCursor # NoCursor
    IN [data |-> data, hasMore |-> hasMore, nextCursor |-> nextCursor]

\* The fetcher awaiting fetchEvents(undefined) on a fresh run; the response
\* body is one of Bodies.
InitParse ==
    /\ \E b \in Bodies :
          /\ pages = <<ParsePage(b)>>
          /\ clock = [phase |-> "parse", body |-> b]
    /\ events = <<>>
    /\ dbCursor = NoCursor
    /\ dbTotal = 0
    /\ fetchQueue = <<>>
    /\ writeQueue = <<>>
    /\ allFetched = FALSE
    /\ lastCursor = NoCursor
    /\ statsTotal = 0
    /\ fpc = "fetching"
    /\ fcur = NoCursor
    /\ wpc = "loop"
    /\ wbatch = [events |-> <<>>, cursor |-> NoCursor]
    /\ saveArg = NoCursor
    /\ mpc = "run"
    /\ faults = 0
    /\ hist = HistInit
    /\ loader = IdleLoader

NextParse == FetchOk

SpecParse == InitParse /\ [][NextParse]_vars

\* The first present member of a list of optional members, <<>> if none is.
FirstPresent(opts) ==
    IF \A i \in 1..Len(opts) : opts[i] = <<>> THEN <<>>
    ELSE opts[CHOOSE i \in 1..Len(opts) :
                 opts[i] # <<>> /\ \A j \in 1..(i - 1) : opts[j] = <<>>]

BodyCursor(b) ==
    FirstPresent(<<b.nextCursor, b.next_cursor, b.pg_nextCursor, b.pg_next_cursor>>)

BodyReportsMore(b) ==
    LET f == FirstPresent(<<b.hasMore, b.has_more, b.pg_hasMore, b.pg_has_more>>)
    IN IF f # <<>> THEN f[1] ELSE BodyCursor(b) # <<>>

BodyData(b) == FirstPresent(<<b.data, b.events, << <<>> >> >>)[1]

\* C19: after a successful fetch the fetcher enqueues the next cursor and
\* continues iff the page reports more pages (first present of hasMore,
\* has_more, pagination.hasMore, pagination.has_more; else whether a cursor is
\* present) and carries a next cursor; otherwise it sets allFetched and stops.
\* A write batch is enqueued iff the page has events.
C19_CompletionDecision ==
    (clock.phase = "parse" /\ fpc # "fetching") =>
        LET b == clock.body
            more == BodyReportsMore(b) /\ BodyCursor(b) # <<>>
        IN /\ IF more
              THEN fpc = "loop" /\ ~allFetched /\ fetchQueue = <<BodyCursor(b)[1]>>
              ELSE fpc = "done" /\ allFetched /\ fetchQueue = <<>>
           /\ IF BodyData(b) = <<>>
              THEN writeQueue = <<>>
              ELSE Len(writeQueue) = 1 /\ writeQueue[1].events = BodyData(b)

C19_Witness ==
    /\ clock.phase = "parse" /\ fpc = "done"
    /\ clock.body.hasMore = <<>> /\ clock.body.has_more = <<FALSE>>
    /\ clock.body.pg_hasMore = <<TRUE>>
    /\ clock.body.nextCursor = <<2>>
    /\ clock.body.data = << <<>> >>
    /\ writeQueue = <<>>

====
